---------------------------- MODULE Spec2Model ----------------------------
(***************************************************************************)
(* S-expression tokenizer and parser, netlist indexes and the by-reference *)
(* and by-net queries of skills/kicad_pin_nets.py, with the symbol         *)
(* property extraction of skills/kicad_component_props.py.                 *)
(*                                                                         *)
(* A Python str is a sequence of one-character strings.  A parsed value is *)
(* a record [k, s, c]: k = "atom" with the text s, k = "list" with the     *)
(* children c, or k = "none" for Python's None.                            *)
(***************************************************************************)
EXTENDS Integers, Sequences, FiniteSets, TLC

VARIABLES text, query, pc, tokens, tree, pin_index, net_index, refs, props, result

vars == <<text, query, pc, tokens, tree, pin_index, net_index, refs, props, result>>

(***************************************************************************)
(* Characters.                                                             *)
(***************************************************************************)
QUOTE == "\""
BSLASH == "\\"
LPAREN == "("
RPAREN == ")"

\* The characters of the model in code point order; str comparison in Python
\* is by code point, so only the relative order matters.
AsciiOrder ==
  << "\t", "\n", "\f", "\r", " ", "\"", "(", ")", "+", "-", "/",
     "0", "1", "2", "3", "4", "5", "6", "7", "8", "9",
     "A", "B", "C", "D", "G", "L", "N", "R", "S", "U", "V",
     "\\", "_",
     "a", "b", "c", "d", "e", "f", "g", "i", "l", "m", "n", "o", "p", "r",
     "s", "t", "u", "v", "x", "y" >>

CharSet == { AsciiOrder[i] : i \in 1..Len(AsciiOrder) }

OrdTable == [ ch \in CharSet |-> CHOOSE i \in 1..Len(AsciiOrder) : AsciiOrder[i] = ch ]

Ord(ch) == OrdTable[ch]

UpperLetters == << "A", "B", "C", "D", "G", "L", "N", "R", "S", "U", "V" >>
LowerLetters == << "a", "b", "c", "d", "g", "l", "n", "r", "s", "u", "v" >>

Digits == { "0", "1", "2", "3", "4", "5", "6", "7", "8", "9" }

Letters == { UpperLetters[i] : i \in 1..Len(UpperLetters) }
           \cup { "a", "b", "c", "d", "e", "f", "g", "i", "l", "m", "n", "o",
                  "p", "r", "s", "t", "u", "v", "x", "y" }

\* str.isspace(): true of more characters than the four the atom loop stops at.
isspace(ch) == ch \in { " ", "\t", "\n", "\r", "\f" }

\* The stop set of the unquoted-token loop: '() \t\n\r"'.
AtomStop == { "(", ")", " ", "\t", "\n", "\r", "\"" }

Min(a, b) == IF a < b THEN a ELSE b

\* Python's text[i] and text[i:j] (0-based, the slice clipped to the length).
At(s, i) == s[i + 1]
Slice(s, i, j) == SubSeq(s, i + 1, Min(j, Len(s)))

(***************************************************************************)
(* tokenize_sexp                                                           *)
(***************************************************************************)
RECURSIVE QuoteScanNoEscape(_, _)
\* Mutant: a backslash does not protect the character after it.
QuoteScanNoEscape(s, j) ==
  IF j >= Len(s) THEN j
  ELSE IF At(s, j) = QUOTE THEN j
  ELSE QuoteScanNoEscape(s, j + 1)

RECURSIVE QuoteScan(_, _)
\* The inner loop of the quoted branch: the index j it stops at.
QuoteScan(s, j) ==
  IF j >= Len(s) THEN j
  ELSE IF At(s, j) = BSLASH /\ j + 1 < Len(s) THEN QuoteScan(s, j + 2)
  ELSE IF At(s, j) = QUOTE THEN j
  ELSE QuoteScan(s, j + 1)

RECURSIVE AtomScan(_, _)
\* The inner loop of the unquoted branch.
AtomScan(s, j) ==
  IF j < Len(s) /\ At(s, j) \notin AtomStop THEN AtomScan(s, j + 1) ELSE j

\* One iteration of the tokenizer's outer loop at index i < len(text):
\* the tokens it appends and the index it continues at.
TokStep(s, i) ==
  LET ch == At(s, i) IN
  IF isspace(ch) THEN [emit |-> <<>>, next |-> i + 1]
  ELSE IF ch = LPAREN THEN [emit |-> << <<LPAREN>> >>, next |-> i + 1]
  ELSE IF ch = RPAREN THEN [emit |-> << <<RPAREN>> >>, next |-> i + 1]
  ELSE IF ch = QUOTE THEN
    LET j == QuoteScan(s, i + 1) IN
    [emit |-> << Slice(s, i, j + 1) >>, next |-> j + 1]
  ELSE
    LET j == AtomScan(s, i) IN
    [emit |-> << Slice(s, i, j) >>, next |-> j]

\* The outer loop's test and body on the loop state [i, tokens]: no change
\* once i >= len(text).
TokIter(s, st) ==
  IF st.i >= Len(s) THEN st
  ELSE LET t == TokStep(s, st.i) IN [i |-> t.next, tokens |-> st.tokens \o t.emit]

RECURSIVE TokLoop(_, _, _)
\* n iterations of the outer loop, split in halves to keep the evaluation
\* shallow.
TokLoop(s, st, n) ==
  IF n <= 1 THEN TokIter(s, st)
  ELSE LET half == TokLoop(s, st, n \div 2) IN
       IF half.i >= Len(s) THEN half ELSE TokLoop(s, half, n - (n \div 2))

\* `while i < len(text)`: every iteration advances i by at least one, so
\* len(text) iterations reach the end of the text.
tokenize_sexp(s) == TokLoop(s, [i |-> 0, tokens |-> <<>>], Len(s)).tokens

(***************************************************************************)
(* parse_sexp, parse_sexp_string                                           *)
(***************************************************************************)
None == [k |-> "none", s |-> <<>>, c |-> <<>>]
Atom(str) == [k |-> "atom", s |-> str, c |-> <<>>]
List(items) == [k |-> "list", s |-> <<>>, c |-> items]

IsList(v) == v.k = "list"
IsAtom(v) == v.k = "atom"

\* str.replace(old, new) for a two-character old and a one-character new:
\* leftmost non-overlapping occurrences.
RECURSIVE Replace2(_, _, _, _)
Replace2(s, a, b, new) ==
  IF Len(s) < 2 THEN s
  ELSE IF s[1] = a /\ s[2] = b THEN <<new>> \o Replace2(SubSeq(s, 3, Len(s)), a, b, new)
  ELSE <<s[1]>> \o Replace2(Tail(s), a, b, new)

\* token[1:-1].replace('\\"', '"').replace('\\\\', '\\')
Unquote(tok) ==
  LET body == SubSeq(tok, 2, Len(tok) - 1) IN
  Replace2(Replace2(body, BSLASH, QUOTE, QUOTE), BSLASH, BSLASH, BSLASH)

\* The atom branch of parse_sexp.
AtomOf(tok) ==
  IF tok[1] = QUOTE /\ tok[Len(tok)] = QUOTE THEN Atom(Unquote(tok)) ELSE Atom(tok)

RECURSIVE parse_sexp(_, _)
RECURSIVE ParseItems(_, _, _)

\* Mutant: the ')' branch does not advance the cursor.
CloseParenStuck(toks, idx) == [item |-> None, idx |-> idx]

\* Mutant: the ')' branch skips the token and parses what follows it.
CloseParenSkip(toks, idx) == parse_sexp(toks, idx + 1)

\* The branch of parse_sexp taken at a ')' token.
CloseParen(toks, idx) == [item |-> None, idx |-> idx + 1]

\* The while loop of the '(' branch.
ParseItems(toks, idx, acc) ==
  IF idx < Len(toks) /\ At(toks, idx) # <<RPAREN>> THEN
    LET r == parse_sexp(toks, idx) IN
    ParseItems(toks, r.idx, IF r.item # None THEN Append(acc, r.item) ELSE acc)
  ELSE [item |-> List(acc), idx |-> idx + 1]

parse_sexp(toks, idx) ==
  IF idx >= Len(toks) THEN [item |-> None, idx |-> idx]
  ELSE IF At(toks, idx) = <<LPAREN>> THEN ParseItems(toks, idx + 1, <<>>)
  ELSE IF At(toks, idx) = <<RPAREN>> THEN CloseParen(toks, idx)
  ELSE [item |-> AtomOf(At(toks, idx)), idx |-> idx + 1]

parse_sexp_string(s) == parse_sexp(tokenize_sexp(s), 0).item

(***************************************************************************)
(* Tree queries                                                            *)
(***************************************************************************)
\* Python truthiness of a parsed value: None, '' and [] are false.
Truthy(v) == (IsAtom(v) /\ v.s # <<>>) \/ (IsList(v) /\ v.c # <<>>)

\* `x or ''`
OrEmpty(v) == IF Truthy(v) THEN v ELSE Atom(<<>>)

\* A list cannot be a dict key or a set member (TypeError: unhashable type).
Hashable(v) == ~IsList(v)

\* sexp[0] == name, for the head of a non-empty list.
HeadIs(v, name) == v.c[1] = Atom(name)

RECURSIVE find_elements(_, _)
RECURSIVE FindInItems(_, _)

FindInItems(items, name) ==
  IF items = <<>> THEN <<>>
  ELSE find_elements(Head(items), name) \o FindInItems(Tail(items), name)

\* Mutant: the search does not go on below an element that matches.
find_elements_Outermost(sexp, name) ==
  IF IsList(sexp) /\ Len(sexp.c) > 0
  THEN IF HeadIs(sexp, name) THEN <<sexp>> ELSE FindInItems(sexp.c, name)
  ELSE <<>>

find_elements(sexp, name) ==
  IF IsList(sexp) /\ Len(sexp.c) > 0
  THEN (IF HeadIs(sexp, name) THEN <<sexp>> ELSE <<>>) \o FindInItems(sexp.c, name)
  ELSE <<>>

RECURSIVE ElementValueIn(_, _)
ElementValueIn(items, key) ==
  IF items = <<>> THEN None
  ELSE LET item == Head(items) IN
       IF IsList(item) /\ Len(item.c) >= 2 /\ item.c[1] = Atom(key)
       THEN item.c[2]
       ELSE ElementValueIn(Tail(items), key)

get_element_value(element, key) == ElementValueIn(element.c, key)

(***************************************************************************)
(* Python dict: a sequence of [key, val] in insertion order; assigning to  *)
(* a key that is present keeps its position.                               *)
(***************************************************************************)
DictHas(d, key) == \E i \in 1..Len(d) : d[i].key = key

DictGet(d, key) == d[CHOOSE i \in 1..Len(d) : d[i].key = key].val

DictSet(d, key, val) ==
  IF DictHas(d, key)
  THEN [i \in 1..Len(d) |-> IF d[i].key = key THEN [key |-> key, val |-> val] ELSE d[i]]
  ELSE Append(d, [key |-> key, val |-> val])

DictKeys(d) == { d[i].key : i \in 1..Len(d) }

\* The outcome of a function that builds a dict: the dict, or the exception.
Built(d) == [raised |-> FALSE, index |-> d]
Raised == [raised |-> TRUE, index |-> <<>>]

(***************************************************************************)
(* Tags and keys of the netlist format.                                    *)
(***************************************************************************)
T_nets == << "n", "e", "t", "s" >>
T_net == << "n", "e", "t" >>
T_node == << "n", "o", "d", "e" >>
T_name == << "n", "a", "m", "e" >>
T_ref == << "r", "e", "f" >>
T_pin == << "p", "i", "n" >>
T_pinfunction == << "p", "i", "n", "f", "u", "n", "c", "t", "i", "o", "n" >>
T_components == << "c", "o", "m", "p", "o", "n", "e", "n", "t", "s" >>
T_comp == << "c", "o", "m", "p" >>
T_symbol == << "s", "y", "m", "b", "o", "l" >>
T_property == << "p", "r", "o", "p", "e", "r", "t", "y" >>
T_lib_id == << "l", "i", "b", "_", "i", "d" >>
T_uuid == << "u", "u", "i", "d" >>
T_Reference == << "R", "e", "f", "e", "r", "e", "n", "c", "e" >>

(***************************************************************************)
(* build_pin_net_index                                                     *)
(***************************************************************************)
\* Mutant: a pin that is already in the index keeps its first value.
PinStoreFirstWins(st, node, net_name) ==
  LET ref == get_element_value(node, T_ref)
      pin == get_element_value(node, T_pin)
      pinfunction == OrEmpty(get_element_value(node, T_pinfunction))
  IN IF st.raised THEN st
     ELSE IF Truthy(ref) /\ Truthy(pin)
     THEN IF Hashable(ref) /\ Hashable(pin)
          THEN IF DictHas(st.index, <<ref, pin>>) THEN st
               ELSE Built(DictSet(st.index, <<ref, pin>>, <<pinfunction, net_name>>))
          ELSE Raised
     ELSE st

\* Mutant: a node is stored when ref and pin are there, empty or not.
PinStoreIfPresent(st, node, net_name) ==
  LET ref == get_element_value(node, T_ref)
      pin == get_element_value(node, T_pin)
      pinfunction == OrEmpty(get_element_value(node, T_pinfunction))
  IN IF st.raised THEN st
     ELSE IF ref # None /\ pin # None
     THEN IF Hashable(ref) /\ Hashable(pin)
          THEN Built(DictSet(st.index, <<ref, pin>>, <<pinfunction, net_name>>))
          ELSE Raised
     ELSE st

\* `if ref and pin: index[(ref, pin)] = (pinfunction, net_name)`
PinStore(st, node, net_name) ==
  LET ref == get_element_value(node, T_ref)
      pin == get_element_value(node, T_pin)
      pinfunction == OrEmpty(get_element_value(node, T_pinfunction))
  IN IF st.raised THEN st
     ELSE IF Truthy(ref) /\ Truthy(pin)
     THEN IF Hashable(ref) /\ Hashable(pin)
          THEN Built(DictSet(st.index, <<ref, pin>>, <<pinfunction, net_name>>))
          ELSE Raised
     ELSE st

RECURSIVE PinNodeLoop(_, _, _)
PinNodeLoop(st, nodes, net_name) ==
  IF nodes = <<>> THEN st
  ELSE PinNodeLoop(PinStore(st, Head(nodes), net_name), Tail(nodes), net_name)

\* The body of `for net in find_elements(nets_section, 'net')`.
PinNetBody(st, net) ==
  PinNodeLoop(st, find_elements(net, T_node), OrEmpty(get_element_value(net, T_name)))

RECURSIVE PinNetLoop(_, _)
PinNetLoop(st, nets) ==
  IF nets = <<>> THEN st ELSE PinNetLoop(PinNetBody(st, Head(nets)), Tail(nets))

\* Mutant: every net element of the tree is indexed, nets section or not.
build_pin_net_index_AnyNet(netlist_sexp) ==
  PinNetLoop(Built(<<>>), find_elements(netlist_sexp, T_net))

build_pin_net_index(netlist_sexp) ==
  LET nets_sections == find_elements(netlist_sexp, T_nets) IN
  IF nets_sections = <<>> THEN Built(<<>>)
  ELSE PinNetLoop(Built(<<>>), find_elements(nets_sections[1], T_net))

(***************************************************************************)
(* build_net_pins_index                                                    *)
(***************************************************************************)
RECURSIVE NetNodePins(_)
\* The pins list accumulated over the nodes of one net.
NetNodePins(nodes) ==
  IF nodes = <<>> THEN <<>>
  ELSE LET node == Head(nodes)
           ref == get_element_value(node, T_ref)
           pin == get_element_value(node, T_pin)
           pinfunction == OrEmpty(get_element_value(node, T_pinfunction))
       IN (IF Truthy(ref) /\ Truthy(pin)
           THEN << [reference |-> ref, pin_number |-> pin, pin_name |-> pinfunction] >>
           ELSE <<>>) \o NetNodePins(Tail(nodes))

\* Mutant: the net is stored without the `if pins` test.
NetStoreAlways(st, net_name, pins) ==
  IF st.raised THEN st
  ELSE IF Hashable(net_name) THEN Built(DictSet(st.index, net_name, pins)) ELSE Raised

\* `if pins: index[net_name] = pins`
NetStore(st, net_name, pins) ==
  IF st.raised THEN st
  ELSE IF pins # <<>>
  THEN IF Hashable(net_name) THEN Built(DictSet(st.index, net_name, pins)) ELSE Raised
  ELSE st

RECURSIVE NetNetLoop(_, _)
NetNetLoop(st, nets) ==
  IF nets = <<>> THEN st
  ELSE LET net == Head(nets) IN
       NetNetLoop(NetStore(st, OrEmpty(get_element_value(net, T_name)),
                           NetNodePins(find_elements(net, T_node))),
                  Tail(nets))

build_net_pins_index(netlist_sexp) ==
  LET nets_sections == find_elements(netlist_sexp, T_nets) IN
  IF nets_sections = <<>> THEN Built(<<>>)
  ELSE NetNetLoop(Built(<<>>), find_elements(nets_sections[1], T_net))

(***************************************************************************)
(* get_component_refs: the set, or the exception.                          *)
(***************************************************************************)
RECURSIVE CompLoop(_, _)
CompLoop(st, comps) ==
  IF comps = <<>> THEN st
  ELSE LET ref == get_element_value(Head(comps), T_ref) IN
       CompLoop(IF st.raised THEN st
                ELSE IF Truthy(ref)
                THEN IF Hashable(ref)
                     THEN [raised |-> FALSE, refs |-> st.refs \cup {ref}]
                     ELSE [raised |-> TRUE, refs |-> {}]
                ELSE st,
                Tail(comps))

get_component_refs(netlist_sexp) ==
  LET components_sections == find_elements(netlist_sexp, T_components) IN
  IF components_sections = <<>> THEN [raised |-> FALSE, refs |-> {}]
  ELSE CompLoop([raised |-> FALSE, refs |-> {}],
                find_elements(components_sections[1], T_comp))

(***************************************************************************)
(* get_property_value, get_symbol_properties, find_component_by_ref        *)
(***************************************************************************)
get_property_value(prop) ==
  IF Len(prop.c) >= 3 /\ prop.c[1] = Atom(T_property)
  THEN <<prop.c[2], prop.c[3]>>
  ELSE <<None, None>>

RECURSIVE SymbolIds(_, _)
\* The first loop of get_symbol_properties: lib_id and uuid.
SymbolIds(d, items) ==
  IF items = <<>> THEN d
  ELSE LET item == Head(items) IN
       SymbolIds(IF IsList(item) /\ Len(item.c) >= 2
                 THEN IF item.c[1] = Atom(T_lib_id) THEN DictSet(d, Atom(T_lib_id), item.c[2])
                      ELSE IF item.c[1] = Atom(T_uuid) THEN DictSet(d, Atom(T_uuid), item.c[2])
                      ELSE d
                 ELSE d,
                 Tail(items))

RECURSIVE SymbolProps(_, _)
\* The second loop: `if name: props[name] = value`.
SymbolProps(st, found) ==
  IF found = <<>> THEN st
  ELSE LET nv == get_property_value(Head(found)) IN
       SymbolProps(IF st.raised THEN st
                   ELSE IF Truthy(nv[1])
                   THEN IF Hashable(nv[1]) THEN Built(DictSet(st.index, nv[1], nv[2]))
                        ELSE Raised
                   ELSE st,
                   Tail(found))

get_symbol_properties(symbol) ==
  SymbolProps(Built(SymbolIds(<<>>, symbol.c)), find_elements(symbol, T_property))

RECURSIVE SymbolLoop(_, _)
\* The loop over the symbols of one schematic file.
SymbolLoop(symbols, ref) ==
  IF symbols = <<>> THEN [kind |-> "none", props |-> <<>>]
  ELSE LET p == get_symbol_properties(Head(symbols)) IN
       IF p.raised THEN [kind |-> "raised", props |-> <<>>]
       ELSE IF DictHas(p.index, Atom(T_Reference))
               /\ DictGet(p.index, Atom(T_Reference)) = Atom(ref)
       THEN [kind |-> "found", props |-> p.index]
       ELSE SymbolLoop(Tail(symbols), ref)

find_component_by_ref(content, ref) ==
  LET sexp == parse_sexp_string(content) IN
  IF ~Truthy(sexp) THEN [kind |-> "none", props |-> <<>>]
  ELSE SymbolLoop(find_elements(sexp, T_symbol), ref)

(***************************************************************************)
(* str helpers: comparison, lower(), `in`, int(), isalpha(), isdigit()     *)
(***************************************************************************)
RECURSIVE StrLess(_, _)
\* a < b for two str values.
StrLess(a, b) ==
  IF b = <<>> THEN FALSE
  ELSE IF a = <<>> THEN TRUE
  ELSE IF a[1] # b[1] THEN Ord(a[1]) < Ord(b[1])
  ELSE StrLess(Tail(a), Tail(b))

LowerChar(ch) ==
  IF \E i \in 1..Len(UpperLetters) : UpperLetters[i] = ch
  THEN LowerLetters[CHOOSE i \in 1..Len(UpperLetters) : UpperLetters[i] = ch]
  ELSE ch

lower(str) == [i \in 1..Len(str) |-> LowerChar(str[i])]

\* `needle in hay` for two str values.
Contains(hay, needle) ==
  \E i \in 0..(Len(hay) - Len(needle)) : SubSeq(hay, i + 1, i + Len(needle)) = needle

RECURSIVE LStrip(_)
LStrip(str) == IF str # <<>> /\ isspace(str[1]) THEN LStrip(Tail(str)) ELSE str

RECURSIVE RStrip(_)
RStrip(str) ==
  IF str # <<>> /\ isspace(str[Len(str)]) THEN RStrip(SubSeq(str, 1, Len(str) - 1)) ELSE str

RECURSIVE DigitsValue(_, _)
\* The value of a digit string read left to right ('_' separators skipped).
DigitsValue(str, acc) ==
  IF str = <<>> THEN acc
  ELSE IF str[1] = "_" THEN DigitsValue(Tail(str), acc)
  ELSE DigitsValue(Tail(str), 10 * acc + (Ord(str[1]) - Ord("0")))

\* int(str): [ok, n]; ok = FALSE is ValueError.  Surrounding whitespace, one
\* sign, and single underscores between digits are accepted.
PyInt(str) ==
  LET t == RStrip(LStrip(str))
      neg == t # <<>> /\ t[1] = "-"
      b == IF t # <<>> /\ t[1] \in {"+", "-"} THEN Tail(t) ELSE t
      valid == /\ b # <<>>
               /\ b[1] \in Digits
               /\ b[Len(b)] \in Digits
               /\ \A i \in 1..Len(b) : b[i] \in Digits \cup {"_"}
               /\ \A i \in 1..(Len(b) - 1) : ~(b[i] = "_" /\ b[i + 1] = "_")
  IN IF valid
     THEN [ok |-> TRUE, n |-> IF neg THEN 0 - DigitsValue(b, 0) ELSE DigitsValue(b, 0)]
     ELSE [ok |-> FALSE, n |-> 0]

isalpha(str) == str # <<>> /\ \A i \in 1..Len(str) : str[i] \in Letters
isdigit(str) == str # <<>> /\ \A i \in 1..Len(str) : str[i] \in Digits

RECURSIVE Concat(_)
Concat(strs) == IF strs = <<>> THEN <<>> ELSE Head(strs) \o Concat(Tail(strs))

(***************************************************************************)
(* get_component_pin_nets                                                  *)
(***************************************************************************)
\* Mutant: every pin number sorts as a string.
RefSortKeyString(p) == [tag |-> 1, n |-> 0, s |-> p.pin_number.s]

\* pin_sort_key of get_component_pin_nets: (0, int) or (1, str).
RefSortKey(p) ==
  LET r == PyInt(p.pin_number.s) IN
  IF r.ok THEN [tag |-> 0, n |-> r.n, s |-> <<>>]
  ELSE [tag |-> 1, n |-> 0, s |-> p.pin_number.s]

\* key a < key b, as tuples.
RefKeyLess(a, b) ==
  IF a.tag # b.tag THEN a.tag < b.tag
  ELSE IF a.tag = 0 THEN a.n < b.n
  ELSE StrLess(a.s, b.s)

RECURSIVE RefInsert(_, _)
\* list.sort is stable: x goes before the first element with a larger key.
RefInsert(sorted, x) ==
  IF sorted = <<>> THEN <<x>>
  ELSE IF RefKeyLess(RefSortKey(x), RefSortKey(Head(sorted))) THEN <<x>> \o sorted
  ELSE <<Head(sorted)>> \o RefInsert(Tail(sorted), x)

RECURSIVE RefSort(_, _)
RefSort(pins, acc) ==
  IF pins = <<>> THEN acc ELSE RefSort(Tail(pins), RefInsert(acc, Head(pins)))

RECURSIVE RefPins(_, _)
\* The loop over pin_index.items() that collects the pins of ref.
RefPins(index, ref) ==
  IF index = <<>> THEN <<>>
  ELSE LET e == Head(index) IN
       (IF e.key[1] = Atom(ref)
        THEN << [pin_number |-> e.key[2], pin_name |-> e.val[1], net |-> e.val[2]] >>
        ELSE <<>>) \o RefPins(Tail(index), ref)

NoRefs == [raised |-> FALSE, refs |-> {}]
NoResult == [kind |-> "none", name |-> <<>>, pins |-> <<>>, matches |-> <<>>]
Res(kind, name, pins, matches) ==
  [kind |-> kind, name |-> name, pins |-> pins, matches |-> matches]

\* The handler from the netlist text on: what it computed and what it returns.
\* kind: "parse_failed", "not_found", "ok", or "raised" (an uncaught exception).
get_component_pin_nets(content, ref) ==
  LET toks == tokenize_sexp(content)
      netlist_sexp == parse_sexp(toks, 0).item
      all_refs == get_component_refs(netlist_sexp)
      pin_idx == build_pin_net_index(netlist_sexp)
      base == [tokens |-> toks, tree |-> netlist_sexp, refs |-> NoRefs,
               pin_index |-> Built(<<>>), result |-> NoResult]
  IN IF ~Truthy(netlist_sexp)
     THEN [base EXCEPT !.result = Res("parse_failed", <<>>, <<>>, <<>>)]
     ELSE IF all_refs.raised
     THEN [base EXCEPT !.refs = all_refs, !.result = Res("raised", <<>>, <<>>, <<>>)]
     ELSE IF Atom(ref) \notin all_refs.refs
     THEN [base EXCEPT !.refs = all_refs, !.result = Res("not_found", ref, <<>>, <<>>)]
     ELSE IF pin_idx.raised
     THEN [base EXCEPT !.refs = all_refs, !.pin_index = pin_idx,
                       !.result = Res("raised", <<>>, <<>>, <<>>)]
     ELSE [base EXCEPT !.refs = all_refs, !.pin_index = pin_idx,
                       !.result = Res("ok", ref, RefSort(RefPins(pin_idx.index, ref), <<>>), <<>>)]

(***************************************************************************)
(* get_net_pins                                                            *)
(***************************************************************************)
RECURSIVE MatchingNets(_, _)
\* The loop that collects matching_nets, in index order.
MatchingNets(index, net_name_lower) ==
  IF index = <<>> THEN <<>>
  ELSE LET name == Head(index).key.s IN
       (IF lower(name) = net_name_lower THEN <<name>>
        ELSE IF Contains(lower(name), net_name_lower) THEN <<name>>
        ELSE <<>>) \o MatchingNets(Tail(index), net_name_lower)

RECURSIVE StrInsert(_, _)
StrInsert(sorted, x) ==
  IF sorted = <<>> THEN <<x>>
  ELSE IF StrLess(x, Head(sorted)) THEN <<x>> \o sorted
  ELSE <<Head(sorted)>> \o StrInsert(Tail(sorted), x)

RECURSIVE SortedStrs(_, _)
\* sorted(matching_nets)
SortedStrs(strs, acc) ==
  IF strs = <<>> THEN acc ELSE SortedStrs(Tail(strs), StrInsert(acc, Head(strs)))

\* Lines 361-384: the exact lookup and the case-insensitive / partial match.
ResolveNet(index, net_name) ==
  IF DictHas(index, Atom(net_name))
  THEN Res("ok", net_name, DictGet(index, Atom(net_name)), <<>>)
  ELSE LET matching_nets == MatchingNets(index, lower(net_name)) IN
       IF matching_nets = <<>> THEN Res("not_found", net_name, <<>>, <<>>)
       ELSE IF Len(matching_nets) = 1
       THEN Res("ok", matching_nets[1], DictGet(index, Atom(matching_nets[1])), <<>>)
       ELSE Res("ambiguous", net_name, <<>>, SortedStrs(matching_nets, <<>>))

\* `for c in ref`: the characters of a str, the elements of a list.
RefItems(ref) ==
  IF IsAtom(ref) THEN [i \in 1..Len(ref.s) |-> <<ref.s[i]>>]
  ELSE [i \in 1..Len(ref.c) |-> ref.c[i].s]

\* c.isalpha() on a list element raises AttributeError.
NetKeyRaises(p) ==
  IsList(p.reference) /\ \E i \in 1..Len(p.reference.c) : ~IsAtom(p.reference.c[i])

RECURSIVE KeepIf(_, _)
KeepIf(items, alpha) ==
  IF items = <<>> THEN <<>>
  ELSE (IF (alpha /\ isalpha(Head(items))) \/ (~alpha /\ isdigit(Head(items)))
        THEN <<Head(items)>> ELSE <<>>) \o KeepIf(Tail(items), alpha)

\* pin_sort_key of get_net_pins: (prefix, num, pin_number).
NetSortKey(p) ==
  LET items == RefItems(p.reference)
      num_str == Concat(KeepIf(items, FALSE))
  IN [prefix |-> Concat(KeepIf(items, TRUE)),
      num |-> IF num_str # <<>> THEN DigitsValue(num_str, 0) ELSE 0,
      pin |-> p.pin_number]

RECURSIVE NodeCmp(_, _)
\* x < y for two unequal parsed values: "lt", "ge", or "raise" (TypeError,
\* '<' between str and list).  Lists compare at their first differing element.
NodeCmp(x, y) ==
  IF IsAtom(x) /\ IsAtom(y) THEN (IF StrLess(x.s, y.s) THEN "lt" ELSE "ge")
  ELSE IF IsList(x) /\ IsList(y)
  THEN LET m == Min(Len(x.c), Len(y.c))
           diff == { i \in 1..m : x.c[i] # y.c[i] }
       IN IF diff = {} THEN (IF Len(x.c) < Len(y.c) THEN "lt" ELSE "ge")
          ELSE LET i == CHOOSE i \in diff : \A j \in diff : i <= j
               IN NodeCmp(x.c[i], y.c[i])
  ELSE "raise"

\* key a < key b, as tuples.
NetKeyCmp(a, b) ==
  IF a.prefix # b.prefix THEN (IF StrLess(a.prefix, b.prefix) THEN "lt" ELSE "ge")
  ELSE IF a.num # b.num THEN (IF a.num < b.num THEN "lt" ELSE "ge")
  ELSE IF a.pin = b.pin THEN "ge"
  ELSE NodeCmp(a.pin, b.pin)

\* pins.sort(key=pin_sort_key) raises when a key cannot be computed or when
\* two keys it has to order cannot be compared: two pins with the same
\* prefix and number whose pin numbers are a str and a list.
NetSortRaises(pins) ==
  \/ \E i \in 1..Len(pins) : NetKeyRaises(pins[i])
  \/ \E i, j \in 1..Len(pins) : NetKeyCmp(NetSortKey(pins[i]), NetSortKey(pins[j])) = "raise"

RECURSIVE NetInsert(_, _)
NetInsert(sorted, x) ==
  IF sorted = <<>> THEN <<x>>
  ELSE IF NetKeyCmp(NetSortKey(x), NetSortKey(Head(sorted))) = "lt" THEN <<x>> \o sorted
  ELSE <<Head(sorted)>> \o NetInsert(Tail(sorted), x)

RECURSIVE NetSort(_, _)
NetSort(pins, acc) ==
  IF pins = <<>> THEN acc ELSE NetSort(Tail(pins), NetInsert(acc, Head(pins)))

\* The handler from the netlist text on.  kind: "parse_failed", "not_found",
\* "ambiguous", "ok", or "raised" (an uncaught exception).
get_net_pins(content, net_name) ==
  LET toks == tokenize_sexp(content)
      netlist_sexp == parse_sexp(toks, 0).item
      net_idx == build_net_pins_index(netlist_sexp)
      r == ResolveNet(net_idx.index, net_name)
      base == [tokens |-> toks, tree |-> netlist_sexp, net_index |-> Built(<<>>),
               result |-> NoResult]
  IN IF ~Truthy(netlist_sexp)
     THEN [base EXCEPT !.result = Res("parse_failed", <<>>, <<>>, <<>>)]
     ELSE IF net_idx.raised
     THEN [base EXCEPT !.net_index = net_idx, !.result = Res("raised", <<>>, <<>>, <<>>)]
     ELSE IF r.kind # "ok"
     THEN [base EXCEPT !.net_index = net_idx, !.result = r]
     ELSE IF NetSortRaises(r.pins)
     THEN [base EXCEPT !.net_index = net_idx, !.result = Res("raised", <<>>, <<>>, <<>>)]
     ELSE [base EXCEPT !.net_index = net_idx,
                       !.result = Res("ok", r.name, NetSort(r.pins, <<>>), <<>>)]

(***************************************************************************)
(* Input texts.  Netlist texts are written out from descriptors: a value   *)
(* text (a quoted string, a list, or Absent for a missing child), nodes    *)
(* <<ref, pin, pinfunction>>, nets <<name, nodes>>.                        *)
(***************************************************************************)
MaxLen == 4        \* length of the free texts over LexChars
MaxQuoteLen == 6   \* length of the free texts over QuoteChars
MaxNodes == 2      \* nodes per net in the generated netlists
MaxNets == 2       \* nets per nets section in the generated netlists

RECURSIVE Strings(_, _)
\* All sequences over chars of length at most n.
Strings(chars, n) ==
  IF n = 0 THEN { <<>> }
  ELSE LET shorter == Strings(chars, n - 1) IN
       shorter \cup { Append(str, ch) : str \in shorter, ch \in chars }

RECURSIVE Seqs(_, _)
\* All sequences over the set S of length at most n.
Seqs(S, n) ==
  IF n = 0 THEN { <<>> }
  ELSE LET shorter == Seqs(S, n - 1) IN
       shorter \cup { Append(q, x) : q \in shorter, x \in S }

LexChars == { "(", ")", "\"", "\\", " ", "\f", "a" }
QuoteChars == { "\"", "\\", "a" }

Absent == << "absent" >>
Q(str) == <<QUOTE>> \o str \o <<QUOTE>>
SP == << " " >>

\* (tag value), or nothing when the child is absent.
Child(tag, vt) == IF vt = Absent THEN <<>> ELSE <<LPAREN>> \o tag \o SP \o vt \o <<RPAREN>>

\* (tag body)
Element(tag, body) == <<LPAREN>> \o tag \o SP \o body \o <<RPAREN>>

NodeText(n) ==
  Element(T_node, Child(T_ref, n[1]) \o SP \o Child(T_pin, n[2]) \o SP
                  \o Child(T_pinfunction, n[3]))

RECURSIVE NodesText(_)
NodesText(ns) == IF ns = <<>> THEN <<>> ELSE NodeText(Head(ns)) \o SP \o NodesText(Tail(ns))

NetText(net) == Element(T_net, Child(T_name, net[1]) \o SP \o NodesText(net[2]))

RECURSIVE NetsBody(_)
NetsBody(nets) == IF nets = <<>> THEN <<>> ELSE NetText(Head(nets)) \o SP \o NetsBody(Tail(nets))

NetsText(nets) == Element(T_nets, NetsBody(nets))

RECURSIVE CompsBody(_)
CompsBody(rs) ==
  IF rs = <<>> THEN <<>>
  ELSE Element(T_comp, Child(T_ref, Head(rs))) \o SP \o CompsBody(Tail(rs))

CompsText(rs) == Element(T_components, CompsBody(rs))

\* (export (components ...) (nets ...))
Netlist(rs, nets) == Element(<< "e", "x", "p", "o", "r", "t" >>, CompsText(rs) \o SP \o NetsText(nets))

S_R1 == << "R", "1" >>
S_U1 == << "U", "1" >>
S_C1 == << "C", "1" >>
S_C10 == << "C", "1", "0" >>
S_R1A == << "R", "1", "A" >>
S_N == << "N" >>
S_GND == << "G", "N", "D" >>
S_SCL == << "S", "C", "L" >>
S_SCL2 == << "S", "C", "L", "2" >>
S_scl == << "s", "c", "l" >>
S_CL2 == << "C", "L", "2" >>
S_cl == << "c", "l" >>
S_x == << "x" >>
ListX == << "(", "x", ")" >>

PinFunctions == << <<"a">>, <<"b">>, <<"c">>, <<"d">>, <<"e">>, <<"f">> >>

\* The i-th node of a net gets the i-th pin function, so that occurrences of
\* the same pin can be told apart.
Numbered(ns) == [i \in 1..Len(ns) |-> <<ns[i][1], ns[i][2], Q(PinFunctions[i])>>]

PinChoices == { <<"1">>, <<"0", "1">>, <<"2">>, <<"1", "0">>, <<"A", "1">>, <<"B">> }

\* One net N whose nodes are pins of R1, in every order.
PinTexts ==
  { Netlist(<<Q(S_R1), Q(S_U1)>>, << <<Q(S_N), Numbered(ns)>> >>) :
      ns \in Seqs({ <<Q(S_R1), Q(p), Absent>> : p \in PinChoices }, MaxNodes) }

RefChoices == { <<S_C1, <<"1">> >>, <<S_C10, <<"1">> >>, <<S_R1, <<"1">> >>,
                <<S_R1A, <<"1">> >>, <<S_R1, <<"2">> >> }

\* One net N whose nodes are pins of several components, in every order.
RefTexts ==
  { Netlist(<<Q(S_U1)>>, << <<Q(S_N), Numbered(ns)>> >>) :
      ns \in Seqs({ <<Q(rp[1]), Q(rp[2]), Absent>> : rp \in RefChoices }, MaxNodes) }

OneNode == << <<Q(S_R1), Q(<<"1">>), Absent>> >>

NetChoices ==
  { <<Q(S_SCL), OneNode>>, <<Q(S_SCL2), OneNode>>, <<Q(S_scl), OneNode>>,
    <<Q(S_SCL), <<>> >>, <<Absent, OneNode>> }

\* A nets section of several nets, with and without nodes, names repeated.
NetTexts ==
  { Netlist(<<Q(S_R1)>>, [i \in 1..Len(nets) |-> <<nets[i][1], Numbered(nets[i][2])>>]) :
      nets \in Seqs(NetChoices, MaxNets) }

\* A single net element with one node, bare or inside a nets section.
OneNet(N, R, P, F) == NetText(<<Q(N), << <<Q(R), Q(P), Q(F)>> >> >>)

BareNetTexts ==
  { OneNet(N, R, P, F) : N \in {S_GND, S_SCL}, R \in {S_R1, S_U1},
                         P \in { <<"1">>, <<"A", "1">> }, F \in { <<"A">>, <<"a", "b">> } }

WrappedNetTexts ==
  { Element(T_nets, OneNet(N, R, P, F)) : N \in {S_GND, S_SCL}, R \in {S_R1, S_U1},
                         P \in { <<"1">>, <<"A", "1">> }, F \in { <<"A">>, <<"a", "b">> } }

\* A net nested inside another net, the same pin before, inside and after it.
NestedNet(withTail) ==
  Element(T_net,
    Child(T_name, Q(S_SCL)) \o SP
    \o NodeText(<<Q(S_R1), Q(<<"1">>), Q(<<"a">>)>>) \o SP
    \o NetText(<<Q(S_N), << <<Q(S_R1), Q(<<"1">>), Q(<<"b">>)>> >> >>)
    \o (IF withTail THEN SP \o NodeText(<<Q(S_R1), Q(<<"1">>), Q(<<"c">>)>>) ELSE <<>>))

NestedTexts ==
  { Element(<< "e", "x", "p", "o", "r", "t" >>,
            CompsText(<<Q(S_R1)>>) \o SP \o Element(T_nets, NestedNet(t))) : t \in BOOLEAN }

\* Children whose value is a list, an empty string or missing.
OddNodes ==
  { <<ListX, Q(<<"1">>), Absent>>, <<Q(S_R1), ListX, Absent>>,
    <<Q(<<>>), Q(<<"1">>), Absent>>, <<Q(S_R1), Q(<<>>), Absent>>,
    <<Absent, Q(<<"1">>), Absent>>, <<Q(S_R1), Absent, Q(<<"a">>)>>,
    <<<<>>, Q(<<"1">>), Absent>>, <<Q(S_R1), Q(<<"1">>), ListX>>,
    << <<"(", "(", "x", ")", ")">>, Q(<<"1">>), Absent>>,
    <<Q(S_R1), Q(<<"1">>), Q(<<>>)>> }

OddTexts ==
  { Netlist(<<rf>>, << <<nm, <<n>> >> >>) :
      rf \in { Q(S_R1), ListX }, nm \in { Q(S_SCL), ListX, Absent }, n \in OddNodes }
  \cup { Netlist(<<Q(S_R1)>>, << <<Q(S_SCL), << <<Q(S_R1), ListX, Absent>>,
                                               <<Q(S_R1), Q(<<"1">>), Absent>> >> >> >>) }

\* No nets section, two nets sections, an empty list, atoms, unbalanced text.
PlainTexts ==
  { <<>>, <<"(", ")">>, S_x, <<")">> \o NetsText(<<>>),
    CompsText(<<Q(S_R1)>>),
    Element(<< "e", "x", "p", "o", "r", "t" >>,
            NetsText(<< <<Q(S_SCL), << <<Q(S_R1), Q(<<"1">>), Absent>> >> >> >>) \o SP
            \o NetsText(<< <<Q(S_N), << <<Q(S_R1), Q(<<"2">>), Absent>> >> >> >>)),
    SubSeq(NetsText(<< <<Q(S_SCL), << <<Q(S_R1), Q(<<"1">>), Absent>> >> >> >>), 1, 30) }

\* Schematic texts: symbols with properties.
Property(nm, val) == Element(T_property, nm \o SP \o val)

SymbolTexts ==
  { Element(T_symbol, Child(T_lib_id, lib) \o SP \o Property(Q(T_Reference), rf)
                      \o SP \o Property(nm, Q(S_x))) :
      lib \in { Q(S_N), ListX, Absent }, rf \in { Q(S_R1), Q(S_U1), ListX },
      nm \in { Q(S_N), ListX, Q(<<>>) } }

\* Two net elements, with the same name or not, with the same pin or not.
SharedNameTexts ==
  { Netlist(<<Q(S_R1)>>, << <<Q(nm1), <<n1>> >>, <<Q(nm2), ns2>> >>) :
      nm1 \in { S_SCL }, nm2 \in { S_SCL, S_N },
      n1 \in { <<Q(S_R1), Q(<<"1">>), Q(<<"a">>)>>, <<Q(S_R1), Q(<<"2">>), Q(<<"a">>)>> },
      ns2 \in { <<>>, << <<Q(S_R1), Q(<<"1">>), Q(<<"b">>)>> >>,
                << <<Q(S_R1), Q(<<"2">>), Q(<<"b">>)>> >> } }

NetlistTexts ==
  PinTexts \cup RefTexts \cup NetTexts \cup BareNetTexts \cup WrappedNetTexts
  \cup NestedTexts \cup OddTexts \cup PlainTexts \cup SymbolTexts \cup SharedNameTexts

LexTexts == Strings(LexChars, MaxLen) \cup Strings(QuoteChars, MaxQuoteLen)

\* The arguments of --ref and --net.
RefQueries == { S_R1, S_U1 }
NetQueries == { S_SCL, S_scl, S_CL2, S_N, S_cl }

(***************************************************************************)
(* State machine.  pc = "input": a text was read and nothing was run yet.  *)
(***************************************************************************)
Fresh ==
  /\ query = <<>>
  /\ pc = "input"
  /\ tokens = <<>>
  /\ tree = None
  /\ pin_index = Built(<<>>)
  /\ net_index = Built(<<>>)
  /\ refs = NoRefs
  /\ props = [kind |-> "none", props |-> <<>>]
  /\ result = NoResult

Init == text \in NetlistTexts /\ Fresh

InitLex == text \in LexTexts /\ Fresh

\* parse_sexp_string(text)
ParseSexpString ==
  /\ pc = "input"
  /\ tokens' = tokenize_sexp(text)
  /\ tree' = parse_sexp(tokens', 0).item
  /\ pc' = "parsed"
  /\ UNCHANGED <<text, query, pin_index, net_index, refs, props, result>>

\* build_pin_net_index(tree)
BuildPinNetIndex ==
  /\ pc = "parsed"
  /\ pin_index' = build_pin_net_index(tree)
  /\ pc' = "pin_indexed"
  /\ UNCHANGED <<text, query, tokens, tree, net_index, refs, props, result>>

\* build_net_pins_index(tree)
BuildNetPinsIndex ==
  /\ pc = "parsed"
  /\ net_index' = build_net_pins_index(tree)
  /\ pc' = "net_indexed"
  /\ UNCHANGED <<text, query, tokens, tree, pin_index, refs, props, result>>

\* get_component_refs(tree)
GetComponentRefs ==
  /\ pc = "parsed"
  /\ refs' = get_component_refs(tree)
  /\ pc' = "refs"
  /\ UNCHANGED <<text, query, tokens, tree, pin_index, net_index, props, result>>

\* get_component_pin_nets(project, ref), from the exported netlist text on
GetComponentPinNets ==
  /\ pc = "input"
  /\ \E ref \in RefQueries :
       LET h == get_component_pin_nets(text, ref) IN
       /\ query' = ref
       /\ tokens' = h.tokens
       /\ tree' = h.tree
       /\ refs' = h.refs
       /\ pin_index' = h.pin_index
       /\ result' = h.result
  /\ pc' = "by_ref"
  /\ UNCHANGED <<text, net_index, props>>

\* get_net_pins(project, net_name), from the exported netlist text on
GetNetPins ==
  /\ pc = "input"
  /\ \E net_name \in NetQueries :
       LET h == get_net_pins(text, net_name) IN
       /\ query' = net_name
       /\ tokens' = h.tokens
       /\ tree' = h.tree
       /\ net_index' = h.net_index
       /\ result' = h.result
  /\ pc' = "by_net"
  /\ UNCHANGED <<text, pin_index, refs, props>>

\* find_component_by_ref(project, ref), for one schematic file's content
FindComponentByRef ==
  /\ pc = "input"
  /\ \E ref \in RefQueries :
       /\ query' = ref
       /\ props' = find_component_by_ref(text, ref)
  /\ pc' = "props"
  /\ UNCHANGED <<text, tokens, tree, pin_index, net_index, refs, result>>

Next ==
  \/ ParseSexpString
  \/ BuildPinNetIndex
  \/ BuildNetPinsIndex
  \/ GetComponentRefs
  \/ GetComponentPinNets
  \/ GetNetPins
  \/ FindComponentByRef

Spec == Init /\ [][Next]_vars

\* The tokenizer and parser alone, over every short text.
SpecLex == InitLex /\ [][ParseSexpString]_vars

(***************************************************************************)
(* Properties                                                              *)
(***************************************************************************)
NetParams ==
  { <<N, R, P, F>> : N \in {S_GND, S_SCL}, R \in {S_R1, S_U1},
                     P \in { <<"1">>, <<"A", "1">> }, F \in { <<"A">>, <<"a", "b">> } }

\* The index that holds exactly (R, P) -> (F, N).
OneEntry(N, R, P, F) ==
  << [key |-> <<Atom(R), Atom(P)>>, val |-> <<Atom(F), Atom(N)>>] >>

\* C1 as stated: the text of a single net element N with one node R, P, F and
\* no enclosing nets section parses to a tree in which find_elements finds one
\* net, and build_pin_net_index of that tree maps (R, P) to (F, N).
C1_BareNetIsIndexed ==
  \A q \in NetParams :
    (pc = "pin_indexed" /\ text = OneNet(q[1], q[2], q[3], q[4]))
      => /\ Len(find_elements(tree, T_net)) = 1
         /\ ~pin_index.raised
         /\ DictHas(pin_index.index, <<Atom(q[2]), Atom(q[3])>>)
         /\ DictGet(pin_index.index, <<Atom(q[2]), Atom(q[3])>>) = <<Atom(q[4]), Atom(q[1])>>

\* C1 amended: find_elements finds one net in both texts; the index is
\* exactly (R, P) -> (F, N) when the net element is inside a nets section and
\* is empty for the bare net element.
C1_NetIndexedInsideNets ==
  \A q \in NetParams :
    /\ (pc = "pin_indexed" /\ text = OneNet(q[1], q[2], q[3], q[4]))
         => /\ Len(find_elements(tree, T_net)) = 1
            /\ pin_index = Built(<<>>)
    /\ (pc = "pin_indexed" /\ text = Element(T_nets, OneNet(q[1], q[2], q[3], q[4])))
         => /\ Len(find_elements(tree, T_net)) = 1
            /\ pin_index = Built(OneEntry(q[1], q[2], q[3], q[4]))

\* C1 witness: the spec's example inside a nets section, indexed.
C1_Witness ==
  /\ pc = "pin_indexed"
  /\ text = Element(T_nets, OneNet(S_GND, S_R1, <<"1">>, <<"A">>))
  /\ pin_index = Built(OneEntry(S_GND, S_R1, <<"1">>, <<"A">>))

\* C2 as stated: build_pin_net_index, build_net_pins_index,
\* get_component_refs and get_symbol_properties return a result for every
\* parsed tree; none of them raises.
C2_IndexersNeverRaise ==
  /\ pc = "pin_indexed" => ~pin_index.raised
  /\ pc = "net_indexed" => ~net_index.raised
  /\ pc = "refs" => ~refs.raised
  /\ pc = "props" => props.kind # "raised"

C4_LeadingCloseIgnored ==
  pc = "parsed" => parse_sexp_string(<<RPAREN>> \o text) = tree

\* The tokens with a ')' token inserted after the first k of them.
InsertClose(toks, k) == SubSeq(toks, 1, k) \o << <<RPAREN>> >> \o SubSeq(toks, k + 1, Len(toks))

\* C4 amended: an unmatched ')' is consumed as an empty item and never stops
\* the parse.  Placed before T it is the one item parse_sexp_string parses, so
\* the tree is None whatever T is; placed as a token after the first complete
\* top-level item it leaves the tree unchanged.
C4_CloseIsEmptyItem ==
  pc = "parsed" =>
    /\ parse_sexp_string(<<RPAREN>> \o text) = None
    /\ \A k \in 0..Len(tokens) :
         (tokens # <<>> /\ parse_sexp(tokens, 0).idx <= k)
           => parse_sexp(InsertClose(tokens, k), 0).item = tree

\* C4 witness: a text that parses to a list, which a leading ')' turns to None.
C4_Witness ==
  /\ pc = "parsed"
  /\ text = << "(", "a", ")" >>
  /\ tree = List(<< Atom(<<"a">>) >>)
  /\ parse_sexp_string(<<RPAREN>> \o text) = None

RECURSIVE IsEscapedBody(_)
\* A body made of ordinary characters, \" pairs and \\ pairs.
IsEscapedBody(body) ==
  IF body = <<>> THEN TRUE
  ELSE IF body[1] = BSLASH
  THEN Len(body) >= 2 /\ body[2] \in {QUOTE, BSLASH} /\ IsEscapedBody(SubSeq(body, 3, Len(body)))
  ELSE body[1] # QUOTE /\ IsEscapedBody(Tail(body))

RECURSIVE LeftToRight(_)
\* The body read left to right, each pair replaced by its second character.
LeftToRight(body) ==
  IF body = <<>> THEN <<>>
  ELSE IF body[1] = BSLASH THEN <<body[2]>> \o LeftToRight(SubSeq(body, 3, Len(body)))
  ELSE <<body[1]>> \o LeftToRight(Tail(body))

\* C5: when the text starts with a terminated quoted string whose body is
\* made of ordinary characters, \" pairs and \\ pairs, the first token is that
\* string with both quotes, ending at the first unescaped quote (the only
\* token when nothing follows), and it parses to the atom that reading the
\* body left to right gives.
C5_QuotedStringAtom ==
  pc = "parsed" =>
    \A n \in 0..(Len(text) - 2) :
      LET body == SubSeq(text, 2, n + 1) IN
      (text[1] = QUOTE /\ text[n + 2] = QUOTE /\ IsEscapedBody(body))
        => /\ tokens # <<>>
           /\ tokens[1] = SubSeq(text, 1, n + 2)
           /\ tree = Atom(LeftToRight(body))
           /\ (n + 2 = Len(text) => Len(tokens) = 1)

\* C5 witness: the quoted string of an escaped backslash and an escaped quote.
C5_Witness ==
  /\ pc = "parsed"
  /\ text = << QUOTE, BSLASH, BSLASH, BSLASH, QUOTE, QUOTE >>
  /\ tokens = << text >>
  /\ tree = Atom(<< BSLASH, QUOTE >>)

(***************************************************************************)
(* Document order: the node elements below the net elements of the first   *)
(* nets section, each with the name of the innermost net around it.        *)
(***************************************************************************)
NameOf(net) == OrEmpty(get_element_value(net, T_name))

\* A node the indexers take: its ref and pin values are both non-empty.
HasRefPin(node) ==
  Truthy(get_element_value(node, T_ref)) /\ Truthy(get_element_value(node, T_pin))

Occurrence(node, net_name) ==
  [key |-> <<get_element_value(node, T_ref), get_element_value(node, T_pin)>>,
   val |-> <<OrEmpty(get_element_value(node, T_pinfunction)), net_name>>]

RECURSIVE DocWalk(_, _, _)
RECURSIVE DocWalkItems(_, _, _)

DocWalkItems(items, inNet, net_name) ==
  IF items = <<>> THEN <<>>
  ELSE DocWalk(Head(items), inNet, net_name) \o DocWalkItems(Tail(items), inNet, net_name)

\* Pre-order walk; inNet and net_name describe the innermost net around v.
DocWalk(v, inNet, net_name) ==
  IF IsList(v) /\ Len(v.c) > 0
  THEN LET isNet == HeadIs(v, T_net)
           inside == inNet \/ isNet
           name == IF isNet THEN NameOf(v) ELSE net_name
       IN (IF HeadIs(v, T_node) /\ inside /\ HasRefPin(v)
           THEN << Occurrence(v, name) >> ELSE <<>>)
          \o DocWalkItems(v.c, inside, name)
  ELSE <<>>

NetsSection(t) == find_elements(t, T_nets)[1]
HasNets(t) == find_elements(t, T_nets) # <<>>

DocOccurrences(t) == IF HasNets(t) THEN DocWalk(NetsSection(t), FALSE, Atom(<<>>)) ELSE <<>>

\* The last element of occs with the given key.
LastWithKey(occs, key) ==
  occs[CHOOSE i \in 1..Len(occs) :
         occs[i].key = key /\ \A j \in (i + 1)..Len(occs) : occs[j].key # key]

UniqueKeys(d) == \A i, j \in 1..Len(d) : d[i].key = d[j].key => i = j

\* C6 as stated: the index holds one entry for each (ref, pin) that occurs,
\* and its value is the (pinfunction, net name) of the occurrence that is
\* last in document order, nested nets included.
C6_LastInDocumentOrder ==
  (pc = "pin_indexed" /\ ~pin_index.raised) =>
    LET occs == DocOccurrences(tree) IN
    /\ UniqueKeys(pin_index.index)
    /\ DictKeys(pin_index.index) = { occs[i].key : i \in 1..Len(occs) }
    /\ \A i \in 1..Len(pin_index.index) :
         pin_index.index[i].val = LastWithKey(occs, pin_index.index[i].key).val

\* The nets of the first nets section, in the order the indexers take them.
NetsOf(t) == IF HasNets(t) THEN find_elements(NetsSection(t), T_net) ELSE <<>>

\* The nodes processed for one net: every node element below it.
NodesOf(net) == find_elements(net, T_node)

NetHasKey(net, key) ==
  \E i \in 1..Len(NodesOf(net)) :
    HasRefPin(NodesOf(net)[i]) /\ Occurrence(NodesOf(net)[i], NameOf(net)).key = key

\* The value written last for key: the last node with that key below the
\* last net that has one, with that net's name.
LastWritten(t, key) ==
  LET nets == NetsOf(t)
      n == CHOOSE i \in 1..Len(nets) :
             NetHasKey(nets[i], key) /\ \A j \in (i + 1)..Len(nets) : ~NetHasKey(nets[j], key)
      nodes == NodesOf(nets[n])
      m == CHOOSE i \in 1..Len(nodes) :
             /\ HasRefPin(nodes[i]) /\ Occurrence(nodes[i], NameOf(nets[n])).key = key
             /\ \A j \in (i + 1)..Len(nodes) :
                  ~(HasRefPin(nodes[j]) /\ Occurrence(nodes[j], NameOf(nets[n])).key = key)
  IN Occurrence(nodes[m], NameOf(nets[n])).val

\* No net element of the section lies below another one.
NoNestedNets(t) ==
  \A i \in 1..Len(NetsOf(t)) : Len(find_elements(NetsOf(t)[i], T_net)) = 1

\* C6 amended: one entry per (ref, pin) that occurs; its value is the one
\* written last when the nets are taken in pre-order and each net takes every
\* node below it, nodes of nested nets included.  Without nested nets that is
\* the last occurrence in document order.
C6_LastWriteWins ==
  (pc = "pin_indexed" /\ ~pin_index.raised) =>
    LET occs == DocOccurrences(tree) IN
    /\ UniqueKeys(pin_index.index)
    /\ DictKeys(pin_index.index) = { occs[i].key : i \in 1..Len(occs) }
    /\ \A i \in 1..Len(pin_index.index) :
         /\ pin_index.index[i].val = LastWritten(tree, pin_index.index[i].key)
         /\ NoNestedNets(tree)
              => pin_index.index[i].val = LastWithKey(occs, pin_index.index[i].key).val

\* C6 witness: the same pin before, inside and after a nested net; the index
\* holds the nested net's value, not that of the last node of the document.
C6_Witness ==
  /\ pc = "pin_indexed"
  /\ Len(DocOccurrences(tree)) = 3
  /\ ~NoNestedNets(tree)
  /\ pin_index = Built(<< [key |-> <<Atom(S_R1), Atom(<<"1">>)>>,
                           val |-> <<Atom(<<"b">>), Atom(S_N)>>] >>)

\* C7: no key of net_pin_index maps to an empty list; a name is a key exactly
\* when a net element of the first nets section with that name has a node
\* below it whose ref and pin are both non-empty (the test the indexer
\* applies); a tree without nets section gives the empty index, no error.
C7_NetIndexKeys ==
  pc = "net_indexed" =>
    /\ ~HasNets(tree) => net_index = Built(<<>>)
    /\ ~net_index.raised =>
         /\ \A i \in 1..Len(net_index.index) : net_index.index[i].val # <<>>
         /\ UniqueKeys(net_index.index)
         /\ DictKeys(net_index.index) =
              { NameOf(NetsOf(tree)[i]) :
                  i \in { j \in 1..Len(NetsOf(tree)) :
                            \E m \in 1..Len(NodesOf(NetsOf(tree)[j])) :
                              HasRefPin(NodesOf(NetsOf(tree)[j])[m]) } }

\* C7 witness: a nets section with a net without pins beside a net with
\* pins; only the second is a key.
C7_Witness ==
  /\ pc = "net_indexed"
  /\ Len(NetsOf(tree)) = 2
  /\ NodesOf(NetsOf(tree)[1]) = <<>>
  /\ NameOf(NetsOf(tree)[1]) = Atom(S_SCL)
  /\ DictKeys(net_index.index) = { Atom(S_SCL2) }

(***************************************************************************)
(* Query results                                                           *)
(***************************************************************************)
Count(seq, x) == Cardinality({ i \in 1..Len(seq) : seq[i] = x })
Range(seq) == { seq[i] : i \in 1..Len(seq) }

\* The entries of pin_net_index whose key has reference R, as result records.
RecordsOf(index, R) ==
  { [pin_number |-> index[i].key[2], pin_name |-> index[i].val[1], net |-> index[i].val[2]] :
      i \in { j \in 1..Len(index) : index[j].key[1] = Atom(R) } }

\* What C8 says of a by-reference query for `query` on a parsed netlist.
ByRefAsClaimed ==
  LET all_refs == get_component_refs(tree)
      pin_idx == build_pin_net_index(tree)
  IN /\ result.kind \in {"not_found", "ok"}
     /\ result.kind = "not_found" <=> Atom(query) \notin all_refs.refs
     /\ result.name = query
     /\ result.kind = "ok" =>
          /\ Range(result.pins) = RecordsOf(pin_idx.index, query)
          /\ \A r \in Range(result.pins) : Count(result.pins, r) = 1

\* C8: a by-reference query for R returns the not-found error naming R
\* exactly when R is not in component_refs; otherwise it returns reference R
\* with exactly one record for each pin_net_index key whose reference is R.
C8_ByRefResult ==
  (pc = "by_ref" /\ result.kind # "parse_failed") => ByRefAsClaimed

\* The same for the queries that return: only an exception breaks C8.
C8_ByRefResultIfReturned ==
  (pc = "by_ref" /\ result.kind \notin {"parse_failed", "raised"}) => ByRefAsClaimed

\* A by-reference query that should have listed the pins of a component in
\* component_refs ended in an exception of the indexer.
C8_RaisedForKnownRef ==
  /\ pc = "by_ref"
  /\ result.kind = "raised"
  /\ ~refs.raised
  /\ Atom(query) \in refs.refs

\* The position of a key in an index.
PosOf(index, key) == CHOOSE i \in 1..Len(index) : index[i].key = key

\* Pins of a by-reference result in the claimed order, up to ties.
SortedUpToTies(pins) ==
  \A i, j \in 1..Len(pins) : i < j =>
    LET a == PyInt(pins[i].pin_number.s)
        b == PyInt(pins[j].pin_number.s)
    IN /\ ~(~a.ok /\ b.ok)
       /\ (a.ok /\ b.ok) => a.n <= b.n
       /\ (~a.ok /\ ~b.ok) => StrLess(pins[i].pin_number.s, pins[j].pin_number.s)

IntegerTie(pins, i, j) ==
  /\ PyInt(pins[i].pin_number.s).ok
  /\ PyInt(pins[j].pin_number.s).ok
  /\ PyInt(pins[i].pin_number.s).n = PyInt(pins[j].pin_number.s).n

\* C9 as stated: integer pins first in ascending numeric order, then the
\* other pins in ascending lexicographic order, and pins of equal value
\* ("1", "01") by their pin-number string, whatever their netlist order.
C9_TiesByPinString ==
  (pc = "by_ref" /\ result.kind = "ok") =>
    /\ SortedUpToTies(result.pins)
    /\ \A i, j \in 1..Len(result.pins) :
         (i < j /\ IntegerTie(result.pins, i, j))
           => StrLess(result.pins[i].pin_number.s, result.pins[j].pin_number.s)

\* C9 amended: the same order, but pins of equal integer value stay in the
\* order of their keys in pin_net_index, which is the order in which the
\* pins first occur in the netlist.
C9_TiesByIndexOrder ==
  (pc = "by_ref" /\ result.kind = "ok") =>
    /\ SortedUpToTies(result.pins)
    /\ \A i, j \in 1..Len(result.pins) :
         (i < j /\ IntegerTie(result.pins, i, j))
           => PosOf(pin_index.index, <<Atom(query), result.pins[i].pin_number>>)
                < PosOf(pin_index.index, <<Atom(query), result.pins[j].pin_number>>)

\* C9 witness: a result in which "1" comes before "01" because the netlist
\* lists it first, and one with integer pins in numeric, not string, order.
C9_Witness ==
  /\ pc = "by_ref"
  /\ result.kind = "ok"
  /\ Len(result.pins) = 2
  /\ \/ /\ result.pins[1].pin_number = Atom(<<"1">>)
        /\ result.pins[2].pin_number = Atom(<<"0", "1">>)
     \/ /\ result.pins[1].pin_number = Atom(<<"2">>)
        /\ result.pins[2].pin_number = Atom(<<"1", "0">>)

\* The set M of C10: the keys whose lowercase form equals or contains the
\* lowercase query.
M(index, name) ==
  { k.s : k \in { key \in DictKeys(index) :
                    \/ lower(key.s) = lower(name)
                    \/ Contains(lower(key.s), lower(name)) } }

StrictlyAscending(strs) ==
  \A i \in 1..(Len(strs) - 1) : StrLess(strs[i], strs[i + 1])

\* What C10 says of a by-net query for `query` that is not a key.
ByNetAsClaimed ==
  LET m == M(net_index.index, query) IN
  /\ m = {} => result = Res("not_found", query, <<>>, <<>>)
  /\ Cardinality(m) = 1 =>
       /\ result.kind = "ok"
       /\ result.name \in m
       /\ \A r \in Range(result.pins) \cup Range(DictGet(net_index.index, Atom(result.name))) :
            Count(result.pins, r) = Count(DictGet(net_index.index, Atom(result.name)), r)
  /\ Cardinality(m) > 1 =>
       /\ result.kind = "ambiguous"
       /\ result.pins = <<>>
       /\ Range(result.matches) = m
       /\ StrictlyAscending(result.matches)

NotAKey ==
  /\ pc = "by_net"
  /\ Truthy(tree)
  /\ ~net_index.raised
  /\ ~DictHas(net_index.index, Atom(query))

\* C10: a by-net query whose name is not a key of net_pin_index is resolved
\* by the set M of matching keys: not found when M is empty, the one net's pin
\* list under its name when M has one name, and the ambiguity error with all
\* of M in sorted order and no pin list when M has several.
C10_FuzzyMatch == NotAKey => ByNetAsClaimed

\* The same for the queries that return: only an exception breaks C10.
C10_FuzzyMatchIfReturned == (NotAKey /\ result.kind # "raised") => ByNetAsClaimed

\* A query with exactly one matching net ended in an exception of the sort.
C10_RaisedForOneMatch ==
  /\ NotAKey
  /\ Cardinality(M(net_index.index, query)) = 1
  /\ result.kind = "raised"

\* An ambiguous query answered with its two matches and no pins.
C10_AmbiguousReached ==
  /\ NotAKey
  /\ result.kind = "ambiguous"
  /\ Len(result.matches) = 2

\* The query names a key of net_pin_index exactly.
ExactKey ==
  /\ pc = "by_net"
  /\ Truthy(tree)
  /\ ~net_index.raised
  /\ DictHas(net_index.index, Atom(query))

\* The two sequences hold the same records the same number of times.
SameRecords(a, b) == \A r \in Range(a) \cup Range(b) : Count(a, r) = Count(b, r)

\* What C11 says of a by-net query for `query` that is a key.
ExactAsClaimed ==
  /\ result.kind = "ok"
  /\ result.name = query
  /\ SameRecords(result.pins, DictGet(net_index.index, Atom(query)))

\* C11: a by-net query whose name is exactly a key of net_pin_index returns
\* that net's pins under that name, never the ambiguity or the not-found
\* error, however many other keys equal it case-insensitively or contain it.
C11_ExactMatch == ExactKey => ExactAsClaimed

\* The same for the queries that return: only an exception breaks C11.
C11_ExactMatchIfReturned == (ExactKey /\ result.kind # "raised") => ExactAsClaimed

\* A query for the key SCL, with SCL2 also a key, answered with the pins of SCL.
C11_ExactBesideOthers ==
  /\ ExactKey
  /\ query = S_SCL
  /\ Cardinality(M(net_index.index, query)) > 1
  /\ result.kind = "ok"

\* A query that names a key ended in an exception of the sort.
C11_RaisedForKey == ExactKey /\ result.kind = "raised"

RECURSIVE TakeWhile(_, _)
\* The longest prefix of str whose characters are all in S.
TakeWhile(str, S) ==
  IF str # <<>> /\ str[1] \in S THEN <<str[1]>> \o TakeWhile(Tail(str), S) ELSE <<>>

\* The key C12 names: the leading letters of the reference, the integer value
\* of the digits that follow them (0 when there are none), the pin number.
LeadingKey(p) ==
  LET letters == TakeWhile(p.reference.s, Letters)
      rest == SubSeq(p.reference.s, Len(letters) + 1, Len(p.reference.s))
      digits == TakeWhile(rest, Digits)
  IN [prefix |-> letters,
      num |-> IF digits = <<>> THEN 0 ELSE DigitsValue(digits, 0),
      pin |-> p.pin_number.s]

\* a < b for two such keys, as tuples.
LeadingKeyLess(a, b) ==
  IF a.prefix # b.prefix THEN StrLess(a.prefix, b.prefix)
  ELSE IF a.num # b.num THEN a.num < b.num
  ELSE StrLess(a.pin, b.pin)

\* C12: the pin list of a resolved by-net query is in ascending order of
\* (leading letters of the reference, integer value of the digits that
\* follow, pin number), also for references such as "R1A" with letters after
\* the digits.
C12_SortedByLeadingLetters ==
  (pc = "by_net" /\ result.kind = "ok") =>
    \A i, j \in 1..Len(result.pins) :
      (/\ i < j
       /\ IsAtom(result.pins[i].reference) /\ IsAtom(result.pins[j].reference)
       /\ IsAtom(result.pins[i].pin_number) /\ IsAtom(result.pins[j].pin_number))
        => ~LeadingKeyLess(LeadingKey(result.pins[j]), LeadingKey(result.pins[i]))

\* R1 pin 2 listed before R1A pin 1: the letter after the digit is taken into
\* the prefix, and "R" sorts before "RA".
C12_LetterAfterDigit ==
  /\ pc = "by_net"
  /\ result.kind = "ok"
  /\ Len(result.pins) = 2
  /\ result.pins[1].reference = Atom(S_R1) /\ result.pins[1].pin_number = Atom(<<"2">>)
  /\ result.pins[2].reference = Atom(S_R1A)

\* The spec's example order holds: C1 before C10.
C12_NumericOrder ==
  /\ pc = "by_net"
  /\ result.kind = "ok"
  /\ Len(result.pins) = 2
  /\ result.pins[1].reference = Atom(S_C1)
  /\ result.pins[2].reference = Atom(S_C10)

\* The child carries a value, empty or not.
CarriesValue(v) == v # None

\* The child carries a value that is not the empty string or the empty list.
NonEmptyValue(v) == v \notin { None, Atom(<<>>), List(<<>>) }

\* The value recorded for a pinfunction or a net name: '' when it is absent.
Recorded(v) == IF v \in { None, List(<<>>) } THEN Atom(<<>>) ELSE v

RefOf(node) == get_element_value(node, T_ref)
PinOf(node) == get_element_value(node, T_pin)

\* The records of the nodes of a net element that pass Has, in node order.
RecordsWhere(net, Has(_)) ==
  LET nodes == NodesOf(net)
      idx == { i \in 1..Len(nodes) : Has(RefOf(nodes[i])) /\ Has(PinOf(nodes[i])) }
      nth(k) == CHOOSE i \in idx : Cardinality({ j \in idx : j <= i }) = k
  IN [k \in 1..Cardinality(idx) |->
        [reference |-> RefOf(nodes[nth(k)]),
         pin_number |-> PinOf(nodes[nth(k)]),
         pin_name |-> Recorded(get_element_value(nodes[nth(k)], T_pinfunction))]]

\* pin_net_index has the key of a node exactly when the node passes Has, and
\* its values never hold an absent pinfunction or net name.
PinIndexedIff(Has(_)) ==
  (pc = "pin_indexed" /\ ~pin_index.raised) =>
    /\ \A n \in 1..Len(NetsOf(tree)) : \A m \in 1..Len(NodesOf(NetsOf(tree)[n])) :
         LET node == NodesOf(NetsOf(tree)[n])[m] IN
         (Has(RefOf(node)) /\ Has(PinOf(node)))
           <=> DictHas(pin_index.index, <<RefOf(node), PinOf(node)>>)
    /\ \A i \in 1..Len(pin_index.index) :
         /\ pin_index.index[i].val[1] # None
         /\ pin_index.index[i].val[2] # None
    /\ \A n \in 1..Len(NetsOf(tree)) :
         (Len(NetsOf(tree)) = 1 /\ Len(NodesOf(NetsOf(tree)[n])) = 1)
           => \A i \in 1..Len(pin_index.index) :
                pin_index.index[i].val =
                  << Recorded(get_element_value(NodesOf(NetsOf(tree)[n])[1], T_pinfunction)),
                     Recorded(get_element_value(NetsOf(tree)[n], T_name)) >>

\* net_pin_index lists, for a net element, exactly its nodes that pass Has,
\* under the net's name ('' when absent); a later net element of the same name
\* that lists a node replaces the list.
NetIndexedIff(Has(_)) ==
  (pc = "net_indexed" /\ ~net_index.raised) =>
    \A n \in 1..Len(NetsOf(tree)) :
      LET net == NetsOf(tree)[n]
          name == Recorded(get_element_value(net, T_name))
          replaced == \E k \in (n + 1)..Len(NetsOf(tree)) :
                        /\ Recorded(get_element_value(NetsOf(tree)[k], T_name)) = name
                        /\ RecordsWhere(NetsOf(tree)[k], Has) # <<>>
      IN (RecordsWhere(net, Has) # <<>> /\ ~replaced)
           => /\ DictHas(net_index.index, name)
              /\ DictGet(net_index.index, name) = RecordsWhere(net, Has)

RECURSIVE PathsOf(_)
PathsOf(v) ==
  IF IsList(v)
  THEN { <<>> } \cup UNION { { <<i>> \o q : q \in PathsOf(v.c[i]) } : i \in 1..Len(v.c) }
  ELSE { <<>> }

RECURSIVE NodeAt(_, _)
NodeAt(v, path) == IF path = <<>> THEN v ELSE NodeAt(v.c[Head(path)], Tail(path))

PathBefore(a, b) ==
  \/ Len(a) < Len(b) /\ SubSeq(b, 1, Len(a)) = a
  \/ \E i \in 1..Min(Len(a), Len(b)) :
       /\ SubSeq(a, 1, i - 1) = SubSeq(b, 1, i - 1)
       /\ a[i] < b[i]

\* The paths of the List nodes whose first element is the atom tag.
MatchesAt(v, tag) ==
  { path \in PathsOf(v) :
      LET node == NodeAt(v, path) IN
      IsList(node) /\ node.c # <<>> /\ node.c[1] = Atom(tag) }

FindTags == { T_nets, T_net, T_node, T_ref, S_x }

\* C14: for every tree and tag, find_elements returns every List node whose
\* first element is the atom tag, each once, in pre-order, matches nested in
\* other matches included; the empty sequence for an atom, an absent tree or
\* an empty list.
C14_FindElementsPreOrder ==
  pc = "parsed" =>
    \A tag \in FindTags :
      LET found == find_elements(tree, tag)
          at == MatchesAt(tree, tag)
      IN /\ Len(found) = Cardinality(at)
         /\ \A path \in at :
              found[Cardinality({ q \in at : PathBefore(q, path) }) + 1] = NodeAt(tree, path)
         /\ (~IsList(tree) \/ tree.c = <<>>) => found = <<>>

\* C14 witness: a net element inside a net element; both are found, the
\* enclosing one first.
C14_Witness ==
  /\ pc = "parsed"
  /\ Len(find_elements(tree, T_net)) = 2
  /\ find_elements(find_elements(tree, T_net)[1], T_net)
       = << find_elements(tree, T_net)[1], find_elements(tree, T_net)[2] >>

\* A character that is no whitespace, no parenthesis and no double quote.
Ordinary(ch) == ~isspace(ch) /\ ch \notin { LPAREN, RPAREN, QUOTE }

IsAtomToken(tok) == tok # <<>> /\ tok[1] \notin { LPAREN, RPAREN, QUOTE }

\* Where a token starts in a text without quotes: at a parenthesis, and at an
\* ordinary character that does not follow an ordinary character.
TokenStarts(s) ==
  { i \in 1..Len(s) :
      \/ s[i] \in { LPAREN, RPAREN }
      \/ Ordinary(s[i]) /\ (i = 1 \/ ~Ordinary(s[i - 1])) }

\* The token that starts at i: the parenthesis, or the run of ordinary
\* characters up to the next character that is not ordinary.
TokenFrom(s, i) ==
  IF s[i] \in { LPAREN, RPAREN } THEN << s[i] >>
  ELSE LET stop == { j \in i..Len(s) : ~Ordinary(s[j]) }
           last == IF stop = {} THEN Len(s)
                   ELSE (CHOOSE j \in stop : \A k \in stop : j <= k) - 1
       IN SubSeq(s, i, last)

\* The tokens of a text without quotes, by position.
RunsOf(s) ==
  LET starts == TokenStarts(s)
      nth(k) == CHOOSE i \in starts : Cardinality({ j \in starts : j <= i }) = k
  IN [k \in 1..Cardinality(starts) |-> TokenFrom(s, nth(k))]

AtomTokensAsClaimed ==
  /\ \A k \in 1..Len(tokens) :
       IsAtomToken(tokens[k]) => \A i \in 1..Len(tokens[k]) : Ordinary(tokens[k][i])
  /\ \A k \in 1..Len(tokens) : tokens[k] # <<>>
  /\ (\A i \in 1..Len(text) : text[i] # QUOTE) => tokens = RunsOf(text)

\* C15: every atom token is a non-empty maximal run of characters without
\* whitespace, parenthesis or double quote; outside quoted strings every
\* parenthesis is a token of its own and whitespace makes no token and is
\* part of none.
C15_AtomTokens == pc = "parsed" => AtomTokensAsClaimed

\* The same for the texts whose whitespace is the space character: only a
\* whitespace character outside ' \t\n\r' breaks C15.
C15_AtomTokensPlainSpace ==
  (pc = "parsed" /\ \A i \in 1..Len(text) : text[i] # "\f") => AtomTokensAsClaimed

\* One atom token with a form feed in it.
C15_FormFeedInAtom ==
  /\ pc = "parsed"
  /\ text = << "a", "\f", "a" >>
  /\ tokens = << text >>

\* The (reference, pin_number) pairs in the lists of a net index.
PairsOf(index) ==
  UNION { { <<DictGet(index, k)[i].reference, DictGet(index, k)[i].pin_number>> :
              i \in 1..Len(DictGet(index, k)) } : k \in DictKeys(index) }

\* The net index lists the pin of entry e of the pin index under e's net.
ListedUnderNet(index, e) ==
  /\ DictHas(index, e.val[2])
  /\ [reference |-> e.key[1], pin_number |-> e.key[2], pin_name |-> e.val[1]]
       \in Range(DictGet(index, e.val[2]))

\* Both indexes were built from the tree of this state.
BothBuilt == pc = "pin_indexed" /\ ~pin_index.raised /\ ~build_net_pins_index(tree).raised

\* No two net elements that list a pin have the same name.
NamesDistinct(t) ==
  \A i, j \in 1..Len(NetsOf(t)) :
    (/\ i < j
     /\ RecordsWhere(NetsOf(t)[i], NonEmptyValue) # <<>>
     /\ RecordsWhere(NetsOf(t)[j], NonEmptyValue) # <<>>)
      => Recorded(get_element_value(NetsOf(t)[i], T_name))
           # Recorded(get_element_value(NetsOf(t)[j], T_name))

\* C16 as stated: for every entry (ref, pin) -> (pinfunction, net) of the pin
\* index, the net index has the key net and lists that pin with that name
\* under it, and the pairs listed in the net index are the keys of the pin
\* index, also when two net elements share a name.
C16_IndexesAgree ==
  BothBuilt =>
    LET net_idx == build_net_pins_index(tree).index IN
    /\ \A i \in 1..Len(pin_index.index) : ListedUnderNet(net_idx, pin_index.index[i])
    /\ PairsOf(net_idx) = DictKeys(pin_index.index)

\* What holds of C16: the net of every entry of the pin index is a key of the
\* net index and every pair listed in the net index is a key of the pin index;
\* when no two net elements that list a pin share a name, every entry's pin
\* is listed under its net with its name and the pairs are exactly the keys.
\* The list of a net element is replaced by that of a later net element of
\* the same name, while the pin index keeps the pins of both.
C16_IndexesAgreeDistinctNames ==
  BothBuilt =>
    LET net_idx == build_net_pins_index(tree).index IN
    /\ \A i \in 1..Len(pin_index.index) : DictHas(net_idx, pin_index.index[i].val[2])
    /\ PairsOf(net_idx) \subseteq DictKeys(pin_index.index)
    /\ NamesDistinct(tree) =>
         /\ \A i \in 1..Len(pin_index.index) : ListedUnderNet(net_idx, pin_index.index[i])
         /\ PairsOf(net_idx) = DictKeys(pin_index.index)

\* Two net elements named SCL with pins 1 and 2 of R1; the pin
\* index has both pins, the net index only the second.
C16_SharedNameReached ==
  /\ BothBuilt
  /\ ~NamesDistinct(tree)
  /\ DictKeys(pin_index.index) = { <<Atom(S_R1), Atom(<<"1">>)>>, <<Atom(S_R1), Atom(<<"2">>)>> }
  /\ PairsOf(build_net_pins_index(tree).index) = { <<Atom(S_R1), Atom(<<"2">>)>> }

=============================================================================
